---- MODULE Spec2Model ----
(***************************************************************************)
(* A model of Yamale's validators (yamale/validators/validators.py) and of *)
(* its batch driver (yamale/yamale.py): construction of the combinator     *)
(* validators, the validators' own checks (_is_valid / fail), the Include  *)
(* validator against the include registry, the file_line validator against *)
(* the filesystem, make_schema and validate.                               *)
(***************************************************************************)
EXTENDS Naturals, Sequences, FiniteSets

\* ------------------------------------------------------------------ bounds
MaxArgs == 3        \* positional arguments of a combinator constructor
MaxChecks == 3      \* checks made with one reused validator instance
MaxDocs == 3        \* data documents of one validate() call
MaxPaths == 2       \* schema paths of one make_schema() call
MaxFiles == 2       \* file paths given to one file_line validator
MaxFileDocs == 2    \* documents one schema file parses to

\* ------------------------------------------------------------ Python values
\* A value is [kind, val]: its Python type and its str().
PyNone == [kind |-> "none", val |-> "None"]
PyStr(s) == [kind |-> "str", val |-> s]
PyInt1 == [kind |-> "int", val |-> "1"]
PyTrue == [kind |-> "bool", val |-> "True"]
PyEmptyList == [kind |-> "list", val |-> "[]"]
PyList == [kind |-> "list", val |-> "['a']"]
PyEmptyMap == [kind |-> "map", val |-> "{}"]
PyMap == [kind |-> "map", val |-> "{'k': 'a'}"]

PyValues ==
  {PyNone, PyStr("a"), PyStr("b"), PyInt1, PyTrue,
   PyEmptyList, PyList, PyEmptyMap, PyMap}

\* Python's ==: True == 1, everything else here compares by type and content.
PyEq(a, b) ==
  \/ a = b
  \/ {a, b} = {PyInt1, PyTrue}

\* str(tuple) of the values' str(), as Enum.fail prints self.enums.
PyRepr(v) == IF v.kind = "str" THEN "'" \o v.val \o "'" ELSE v.val

RECURSIVE JoinWith(_, _)
JoinWith(strs, sep) ==
  IF strs = <<>> THEN ""
  ELSE IF Len(strs) = 1 THEN strs[1]
  ELSE strs[1] \o sep \o JoinWith(Tail(strs), sep)

TupleRepr(vs) ==
  IF Len(vs) = 1 THEN "(" \o PyRepr(vs[1]) \o ",)"
  ELSE "(" \o JoinWith([i \in 1..Len(vs) |-> PyRepr(vs[i])], ", ") \o ")"

\* ------------------------------------------------------- validator objects
\* One record shape for every validator instance; a class leaves the fields
\* it does not have at their empty value.
Validator(tag) ==
  [kind |-> "validator", tag |-> tag, validators |-> <<>>, literals |-> <<>>,
   enums |-> <<>>, allow_empty_set |-> FALSE]

IsValidator(val) == val.kind = "validator"

String == Validator("str")
Integer == Validator("int")
Boolean == Validator("bool")
Null == Validator("null")
Map == Validator("map")
List == Validator("list")

Enum(args) == [Validator("enum") EXCEPT !.enums = args]

\* Any.__init__: one pass over the arguments, validators and literals each
\* kept in argument order, then one Enum over the literals when there are any.
RECURSIVE AnyLoop(_, _, _)
AnyLoop(args, validators, literals) ==
  IF args = <<>> THEN [validators |-> validators, literals |-> literals]
  ELSE IF IsValidator(Head(args))
       THEN AnyLoop(Tail(args), Append(validators, Head(args)), literals)
       ELSE AnyLoop(Tail(args), validators, Append(literals, Head(args)))

Any(args) ==
  LET p == AnyLoop(args, <<>>, <<>>)
  IN  [Validator("any") EXCEPT
         !.literals = p.literals,
         !.validators = IF p.literals # <<>>
                        THEN Append(p.validators, Enum(p.literals))
                        ELSE p.validators]

NotAny(args) == [Validator("notany") EXCEPT !.validators = Any(args).validators]

All(args) == [Validator("all") EXCEPT !.validators = Any(args).validators]

\* [val for val in args if isinstance(val, Validator)]
RECURSIVE OnlyValidators(_)
OnlyValidators(args) ==
  IF args = <<>> THEN <<>>
  ELSE IF IsValidator(Head(args))
       THEN <<Head(args)>> \o OnlyValidators(Tail(args))
       ELSE OnlyValidators(Tail(args))

\* bool(kwargs.pop("allow_empty", False)); the keyword is "unset" when absent.
AllowEmptyKw(kw) == kw = "True"

SubsetRaises_NoArgs(args) == args = <<>>

\* if not self.validators: raise ValueError
SubsetRaises(args) == OnlyValidators(args) = <<>>

Subset(args, kw) ==
  [Validator("subset") EXCEPT
     !.allow_empty_set = AllowEmptyKw(kw),
     !.validators = OnlyValidators(args)]

\* Subset's policy properties; every other class has the base's defaults,
\* which this model does not read.
is_optional(v) == v.allow_empty_set
can_be_none(v) == v.allow_empty_set

get_name(v) == v.tag

\* ------------------------------------------------- the validators' own check
\* _is_valid of each class, by tag.
IsValid(v, value) ==
  CASE v.tag = "str" -> value.kind = "str"
    [] v.tag = "int" -> value.kind = "int"
    [] v.tag = "bool" -> value.kind = "bool"
    [] v.tag = "null" -> value.kind = "none"
    [] v.tag = "map" -> value.kind = "map"
    [] v.tag = "list" -> value.kind = "list"
    [] v.tag = "enum" -> \E i \in 1..Len(v.enums) : PyEq(value, v.enums[i])
    [] v.tag = "any" -> TRUE
    [] v.tag = "notany" -> TRUE
    [] v.tag = "all" -> TRUE
    [] v.tag = "subset" -> can_be_none(v) \/ value.kind # "none"

DefaultFail(v, value) == "'" \o value.val \o "' is not a " \o get_name(v) \o "."

Fail(v, value) ==
  CASE v.tag = "enum" -> "'" \o value.val \o "' not in " \o TupleRepr(v.enums)
    [] v.tag = "subset" -> "'" \o get_name(v) \o "' may not be an empty set."
    [] OTHER -> DefaultFail(v, value)

\* ------------------------------------------------------------------- state
VARIABLES
  ctor,         \* the combinator constructor call made: [tag, args, kw]
  inst,         \* the combinator instance it built, or NoInst
  cerror,       \* the exception the constructor raised, "" when none
  chk,          \* the last check made with inst: [value, result, msg]
  includes,     \* the process-wide include registry: name -> compiled schema
  fs,           \* the files that exist
  rinst,        \* a reused Include or FileLine instance, or NoInst
  rchk,         \* the last check made with rinst: [value, result, msg, call]
  rcount,       \* the number of checks made with rinst
  f_pc,         \* FileLine._is_valid: "idle", or "loop" while it runs
  f_k,          \* FileLine._is_valid: the position of the for loop in filename
  f_value,      \* FileLine._is_valid: the value being checked
  f_reads,      \* what each f.is_file() of the current or last check returned
  b_schema,     \* validate(): its schema argument
  b_data,       \* validate(): its data argument, a list of (d, path)
  b_strict,     \* validate(): its strict argument
  b_raise,      \* validate(): its _raise_error argument
  b_pc,         \* validate(): "idle", "loop" or "done"
  b_i,          \* validate(): the position of the for loop in data
  results,      \* validate(): the results list
  is_valid,     \* validate(): the is_valid flag
  b_calls,      \* the documents handed to schema.validate, in call order
  b_out,        \* how validate() ended: returned or raised, with the results
  m_files,      \* make_schema(): what each schema path parses to
  m_path,       \* make_schema(): its path argument, a list of paths
  m_pc,         \* make_schema(): "idle", "path", "docs" or "done"
  m_p,          \* make_schema(): the position of the outer loop in path
  raw_schemas,  \* make_schema(): the documents of the current path
  m_j,          \* make_schema(): the position in raw_schemas
  main_schema,  \* make_schema(): the root schema, NoSchema for None
  m_roots,      \* the root schemas constructed, in order
  m_adds,       \* the documents handed to add_include, in call order
  m_out         \* how make_schema() ended

combVars == <<ctor, inst, cerror, chk>>
flVars == <<f_pc, f_k, f_value, f_reads>>
envVars == <<includes, fs, rinst, rchk, rcount, flVars>>
batchVars == <<b_schema, b_data, b_strict, b_raise, b_pc, b_i, results,
               is_valid, b_calls, b_out>>
makeVars == <<m_files, m_path, m_pc, m_p, raw_schemas, m_j, main_schema,
              m_roots, m_adds, m_out>>
vars == <<combVars, envVars, batchVars, makeVars>>

NoInst == [tag |-> "none"]
NoCall == [tag |-> "none"]
NoCheck == [done |-> FALSE]

\* ------------------------------------------- combinators: construct, check
Leaves == {String, Integer}
Literals == {PyStr("a"), PyInt1}
ArgItems == Leaves \cup Literals
ArgLists == UNION {[1..n -> ArgItems] : n \in 0..MaxArgs}
PlainTags == {"any", "notany", "all"}
KwValues == {"unset", "True", "False"}

InitComb ==
  /\ ctor = NoCall
  /\ inst = NoInst
  /\ cerror = ""
  /\ chk = NoCheck

\* Any(*args), NotAny(*args), All(*args)
Construct ==
  /\ ctor = NoCall
  /\ \E tag \in PlainTags, args \in ArgLists :
       /\ ctor' = [tag |-> tag, args |-> args, kw |-> "unset"]
       /\ inst' = CASE tag = "any" -> Any(args)
                    [] tag = "notany" -> NotAny(args)
                    [] tag = "all" -> All(args)
  /\ UNCHANGED <<cerror, chk>>

\* Subset(*args, allow_empty=kw): raises ValueError with no child validator.
ConstructSubset ==
  /\ ctor = NoCall
  /\ \E args \in ArgLists, kw \in KwValues :
       /\ ctor' = [tag |-> "subset", args |-> args, kw |-> kw]
       /\ IF SubsetRaises(args)
          THEN /\ cerror' =
                    "ValueError: 'subset' requires at least one validator!"
               /\ inst' = NoInst
          ELSE /\ cerror' = ""
               /\ inst' = Subset(args, kw)
  /\ UNCHANGED chk

\* inst._is_valid(value), and inst.fail(value) when it is False.
Check ==
  /\ inst # NoInst
  /\ \E value \in PyValues :
       LET ok == IsValid(inst, value)
       IN  chk' = [done |-> TRUE, value |-> value, result |-> ok,
                   msg |-> IF ok THEN "" ELSE Fail(inst, value)]
  /\ UNCHANGED <<ctor, inst, cerror>>

NextComb ==
  \/ Construct /\ UNCHANGED <<envVars, batchVars, makeVars>>
  \/ ConstructSubset /\ UNCHANGED <<envVars, batchVars, makeVars>>
  \/ Check /\ UNCHANGED <<envVars, batchVars, makeVars>>

\* ------------------------------------------- compiled schemas, the registry
\* A raw schema document maps names to definitions; a definition is the list
\* of leaf validators its value must satisfy, with the keys it declares, or
\* is malformed.
Body(validators, keys) ==
  [malformed |-> FALSE, validators |-> validators, keys |-> keys]
BodyStr == Body(<<String>>, {})
BodyIntB == Body(<<Integer, Enum(<<PyStr("b")>>)>>, {})
BodyMap == Body(<<Map>>, {})
BodyMalformed == [malformed |-> TRUE, validators |-> <<>>, keys |-> {}]

\* Schema(body, name): a compiled schema.
Schema(body, name) ==
  [name |-> name, validators |-> body.validators, keys |-> body.keys]

ValueKeys(value) == IF value = PyMap THEN {"k"} ELSE {}

RECURSIVE LeafErrors(_, _)
LeafErrors(validators, data) ==
  IF validators = <<>> THEN <<>>
  ELSE (IF IsValid(Head(validators), data) THEN <<>>
        ELSE <<Fail(Head(validators), data)>>)
       \o LeafErrors(Tail(validators), data)

\* schema.validate(data, data_name, strict): the Result, one error per
\* validator that rejects the data, and under strict one for an undeclared key.
SchemaValidate(schema, data, data_name, strict) ==
  [data |-> data_name, schema |-> schema.name,
   errors |-> LeafErrors(schema.validators, data)
              \o (IF strict = "True" /\ ValueKeys(data) \ schema.keys # {}
                  THEN <<"k: Unexpected element">> ELSE <<>>)]

ResultIsValid(result) == result.errors = <<>>

\* schema.add_include(raw): every name of the document enters the registry.
add_include(registry, raw) ==
  [n \in DOMAIN registry \cup DOMAIN raw |->
     IF n \in DOMAIN raw THEN Schema(raw[n], n) ELSE registry[n]]

\* ------------------------------------------------- Include and file_line
StrictValues == {"None", "True", "False"}
IncludeNames == {"foo", "bar"}
FilePaths == {"f1", "f2"}
FileLists == UNION {[1..n -> FilePaths] : n \in 0..MaxFiles}
IncludeDocs == {[foo |-> BodyStr], [foo |-> BodyIntB, bar |-> BodyMap],
                [bar |-> BodyStr]}

\* Include(name, strict=...)
Include(name, strict) ==
  [tag |-> "include", include_name |-> name, strict |-> strict, errors |-> <<>>]

\* FileLine(*paths)
FileLine(paths) == [tag |-> "file_line", filename |-> paths, error |-> ""]

NotIncluded(name) == "'" \o name \o "' is not included"

\* The errors Include._is_valid leaves on the instance.
IncludeErrors(v, value, registry) ==
  IF value.kind = "str"
  THEN IF v.include_name \in DOMAIN registry
       THEN SchemaValidate(registry[v.include_name], value,
                           v.include_name, v.strict).errors
       ELSE <<NotIncluded(v.include_name)>>
  ELSE <<>>

\* The sub-schema validation Include._is_valid calls, if it calls one.
IncludeCall(v, value, registry) ==
  IF value.kind = "str" /\ v.include_name \in DOMAIN registry
  THEN <<[schema |-> v.include_name, data |-> value,
          data_name |-> v.include_name, strict |-> v.strict]>>
  ELSE <<>>

IncludeFail(v, value) ==
  "'" \o value.val \o "' is not " \o v.include_name \o " because "
    \o JoinWith(v.errors, "; ")

\* One pass of FileLine._is_valid's loop: self.error after it, given what
\* f.is_file() returned; an error already there is kept when the file exists.
FileLinePass(error, fn, is_file) ==
  IF is_file THEN error ELSE "file '" \o fn \o "' does not exists"

InitEnv ==
  /\ includes = <<>>
  /\ fs = {}
  /\ rinst = NoInst
  /\ rchk = NoCheck
  /\ rcount = 0
  /\ f_pc = "idle"
  /\ f_k = 1
  /\ f_value = PyNone
  /\ f_reads = <<>>

NewInclude ==
  /\ rinst = NoInst
  /\ \E name \in IncludeNames, strict \in StrictValues :
       rinst' = Include(name, strict)
  /\ UNCHANGED <<includes, fs, rchk, rcount, flVars>>

NewFileLine ==
  /\ rinst = NoInst
  /\ \E paths \in FileLists : rinst' = FileLine(paths)
  /\ UNCHANGED <<includes, fs, rchk, rcount, flVars>>

AddInclude ==
  /\ \E raw \in IncludeDocs : includes' = add_include(includes, raw)
  /\ UNCHANGED <<fs, rinst, rchk, rcount, flVars>>

CreateFile ==
  /\ \E p \in FilePaths \ fs : fs' = fs \cup {p}
  /\ UNCHANGED <<includes, rinst, rchk, rcount, flVars>>

RemoveFile ==
  /\ \E p \in fs : fs' = fs \ {p}
  /\ UNCHANGED <<includes, rinst, rchk, rcount, flVars>>

\* rinst._is_valid(value) on an Include, and rinst.fail(value) when False.
IncludeCheck ==
  /\ rinst.tag = "include"
  /\ rcount < MaxChecks
  /\ rcount' = rcount + 1
  /\ \E value \in PyValues :
       /\ rinst' = [rinst EXCEPT
                      !.errors = IncludeErrors(rinst, value, includes)]
       /\ rchk' = [done |-> TRUE, value |-> value,
                   result |-> rinst'.errors = <<>>,
                   msg |-> IF rinst'.errors = <<>> THEN ""
                           ELSE IncludeFail(rinst', value),
                   call |-> IncludeCall(rinst, value, includes)]
  /\ UNCHANGED <<includes, fs, flVars>>

\* rinst._is_valid(value) on a FileLine is entered.
FileLineCall ==
  /\ rinst.tag = "file_line"
  /\ f_pc = "idle"
  /\ rcount < MaxChecks
  /\ \E value \in PyValues : f_value' = value
  /\ f_k' = 1
  /\ f_reads' = <<>>
  /\ f_pc' = "loop"
  /\ UNCHANGED <<includes, fs, rinst, rchk, rcount>>

\* One pass of its loop: one read of the file system, for one listed file.
FileLineRead ==
  /\ f_pc = "loop"
  /\ f_k <= Len(rinst.filename)
  /\ LET fn == rinst.filename[f_k]
         is_file == fn \in fs
     IN  /\ rinst' = [rinst EXCEPT
                        !.error = FileLinePass(rinst.error, fn, is_file)]
         /\ f_reads' = Append(f_reads, is_file)
  /\ f_k' = f_k + 1
  /\ UNCHANGED <<includes, fs, rchk, rcount, f_pc, f_value>>

\* return not self.error, and rinst.fail(value) when it is False.
FileLineReturn ==
  /\ f_pc = "loop"
  /\ f_k > Len(rinst.filename)
  /\ rchk' = [done |-> TRUE, value |-> f_value, result |-> rinst.error = "",
              msg |-> rinst.error, call |-> <<>>]
  /\ rcount' = rcount + 1
  /\ f_pc' = "idle"
  /\ UNCHANGED <<includes, fs, rinst, f_k, f_value, f_reads>>

NextEnv ==
  \/ NewInclude /\ UNCHANGED <<combVars, batchVars, makeVars>>
  \/ NewFileLine /\ UNCHANGED <<combVars, batchVars, makeVars>>
  \/ AddInclude /\ UNCHANGED <<combVars, batchVars, makeVars>>
  \/ CreateFile /\ UNCHANGED <<combVars, batchVars, makeVars>>
  \/ RemoveFile /\ UNCHANGED <<combVars, batchVars, makeVars>>
  \/ IncludeCheck /\ UNCHANGED <<combVars, batchVars, makeVars>>
  \/ FileLineCall /\ UNCHANGED <<combVars, batchVars, makeVars>>
  \/ FileLineRead /\ UNCHANGED <<combVars, batchVars, makeVars>>
  \/ FileLineReturn /\ UNCHANGED <<combVars, batchVars, makeVars>>

\* ------------------------------------------------------------- validate()
NoOutcome == [kind |-> "none"]
DataValues == {PyStr("a"), PyMap}
DataPaths == {"d1.yaml", "d2.yaml"}
DataDocs == [d : DataValues, path : DataPaths]
DataLists == UNION {[1..n -> DataDocs] : n \in 0..MaxDocs}
RootSchemas == {Schema(BodyStr, "root"), Schema(BodyMap, "root")}

AccumulateValid_LastOnly(valid, result) == ResultIsValid(result)

\* is_valid = is_valid and result.isValid()
AccumulateValid(valid, result) == valid /\ ResultIsValid(result)

\* if _raise_error and not is_valid
ShouldRaise(raise_error, valid) == raise_error /\ ~valid

AppendResult_InvalidOnly(rs, result) ==
  IF ResultIsValid(result) THEN rs ELSE Append(rs, result)

\* results.append(result)
AppendResult(rs, result) == Append(rs, result)

InitBatch ==
  /\ b_schema = NoInst
  /\ b_data = <<>>
  /\ b_strict = "True"
  /\ b_raise = TRUE
  /\ b_pc = "idle"
  /\ b_i = 1
  /\ results = <<>>
  /\ is_valid = TRUE
  /\ b_calls = <<>>
  /\ b_out = NoOutcome

\* validate(schema, data, strict, _raise_error) is entered.
ValidateCall ==
  /\ b_pc = "idle"
  /\ \E schema \in RootSchemas, data \in DataLists,
        strict \in {"True", "False"}, raise_error \in BOOLEAN :
       /\ b_schema' = schema
       /\ b_data' = data
       /\ b_strict' = strict
       /\ b_raise' = raise_error
  /\ results' = <<>>
  /\ is_valid' = TRUE
  /\ b_i' = 1
  /\ b_pc' = "loop"
  /\ UNCHANGED <<b_calls, b_out>>

\* One pass of the for loop.
ValidateStep ==
  /\ b_pc = "loop"
  /\ b_i <= Len(b_data)
  /\ LET doc == b_data[b_i]
         result == SchemaValidate(b_schema, doc.d, doc.path, b_strict)
     IN  /\ b_calls' = Append(b_calls, doc)
         /\ results' = AppendResult(results, result)
         /\ is_valid' = AccumulateValid(is_valid, result)
  /\ b_i' = b_i + 1
  /\ UNCHANGED <<b_schema, b_data, b_strict, b_raise, b_pc, b_out>>

\* After the loop: raise YamaleError(results) or return results.
ValidateEnd ==
  /\ b_pc = "loop"
  /\ b_i > Len(b_data)
  /\ b_out' = IF ShouldRaise(b_raise, is_valid)
              THEN [kind |-> "raised", exc |-> "YamaleError",
                    results |-> results]
              ELSE [kind |-> "returned", exc |-> "", results |-> results]
  /\ b_pc' = "done"
  /\ UNCHANGED <<b_schema, b_data, b_strict, b_raise, b_i, results,
                 is_valid, b_calls>>

NextBatch ==
  \/ ValidateCall /\ UNCHANGED <<combVars, envVars, makeVars>>
  \/ ValidateStep /\ UNCHANGED <<combVars, envVars, makeVars>>
  \/ ValidateEnd /\ UNCHANGED <<combVars, envVars, makeVars>>

\* ---------------------------------------------------------- make_schema()
NoSchema == [name |-> "None"]
SchemaPaths == {"s1.yaml", "s2.yaml"}
SchemaDocs == {[foo |-> BodyStr], [foo |-> BodyIntB, bar |-> BodyMap],
               [bar |-> BodyMalformed]}
DocLists == UNION {[1..n -> SchemaDocs] : n \in 0..MaxFileDocs}
PathLists == UNION {[1..n -> SchemaPaths] : n \in 0..MaxPaths}

\* Schema(raw, name) and add_include(raw) raise on a malformed definition.
DocMalformed(raw) == \E n \in DOMAIN raw : raw[n].malformed

\* Schema(raw_schemas[0], p, validators=validators)
RootSchema(raw, name) == [name |-> name, raw |-> raw]

NeedsRoot_EveryPath(schema) == TRUE

\* if not main_schema
NeedsRoot(schema) == schema = NoSchema

InitMake ==
  /\ m_files = <<>>
  /\ m_path = <<>>
  /\ m_pc = "idle"
  /\ m_p = 1
  /\ raw_schemas = <<>>
  /\ m_j = 1
  /\ main_schema = NoSchema
  /\ m_roots = <<>>
  /\ m_adds = <<>>
  /\ m_out = NoOutcome

\* make_schema(path) is entered; files is what parse_yaml gives for each path.
MakeSchemaCall ==
  /\ m_pc = "idle"
  /\ \E files \in [SchemaPaths -> DocLists], path \in PathLists :
       /\ m_files' = files
       /\ m_path' = path
  /\ main_schema' = NoSchema
  /\ m_p' = 1
  /\ m_pc' = "path"
  /\ UNCHANGED <<raw_schemas, m_j, m_roots, m_adds, m_out, includes>>

\* for p in path: parse it, and raise ValueError when it holds no document.
ParsePath ==
  /\ m_pc = "path"
  /\ m_p <= Len(m_path)
  /\ raw_schemas' = m_files[m_path[m_p]]
  /\ m_j' = 1
  /\ IF raw_schemas' = <<>>
     THEN /\ m_pc' = "done"
          /\ m_out' = [kind |-> "raised", exc |-> "ValueError",
                       file |-> m_path[m_p], schema |-> NoSchema]
     ELSE /\ m_pc' = "docs"
          /\ UNCHANGED m_out
  /\ UNCHANGED <<m_files, m_path, m_p, main_schema, m_roots, m_adds,
                 includes>>

\* One document of the current path: the root schema when there is none yet
\* and the document is the path's first, an include otherwise; a malformed
\* document ends make_schema with SyntaxError, which names path[0].
SchemaDoc ==
  /\ m_pc = "docs"
  /\ m_j <= Len(raw_schemas)
  /\ LET raw == raw_schemas[m_j]
         asRoot == m_j = 1 /\ NeedsRoot(main_schema)
     IN  IF DocMalformed(raw)
         THEN /\ m_pc' = "done"
              /\ m_out' = [kind |-> "raised", exc |-> "SyntaxError",
                           file |-> m_path[1], schema |-> NoSchema]
              /\ m_adds' = IF asRoot THEN m_adds ELSE Append(m_adds, raw)
              /\ UNCHANGED <<m_j, main_schema, m_roots, includes>>
         ELSE /\ m_j' = m_j + 1
              /\ IF asRoot
                 THEN /\ main_schema' = RootSchema(raw, m_path[m_p])
                      /\ m_roots' = Append(m_roots, main_schema')
                      /\ UNCHANGED <<m_adds, includes>>
                 ELSE /\ includes' = add_include(includes, raw)
                      /\ m_adds' = Append(m_adds, raw)
                      /\ UNCHANGED <<main_schema, m_roots>>
              /\ UNCHANGED <<m_pc, m_out>>
  /\ UNCHANGED <<m_files, m_path, m_p, raw_schemas>>

\* The documents of the current path are done: on to the next path.
NextPath ==
  /\ m_pc = "docs"
  /\ m_j > Len(raw_schemas)
  /\ m_p' = m_p + 1
  /\ m_pc' = "path"
  /\ UNCHANGED <<m_files, m_path, raw_schemas, m_j, main_schema, m_roots,
                 m_adds, m_out, includes>>

\* return main_schema
MakeSchemaReturn ==
  /\ m_pc = "path"
  /\ m_p > Len(m_path)
  /\ m_out' = [kind |-> "returned", exc |-> "", file |-> "",
               schema |-> main_schema]
  /\ m_pc' = "done"
  /\ UNCHANGED <<m_files, m_path, m_p, raw_schemas, m_j, main_schema,
                 m_roots, m_adds, includes>>

makeRest == <<combVars, batchVars, fs, rinst, rchk, rcount, flVars>>

NextMake ==
  \/ MakeSchemaCall /\ UNCHANGED makeRest
  \/ ParsePath /\ UNCHANGED makeRest
  \/ SchemaDoc /\ UNCHANGED makeRest
  \/ NextPath /\ UNCHANGED makeRest
  \/ MakeSchemaReturn /\ UNCHANGED makeRest

\* ------------------------------------------------------------ specifications
Init == InitComb /\ InitEnv /\ InitBatch /\ InitMake

SpecCombinators == Init /\ [][NextComb]_vars

SpecValidators == Init /\ [][NextEnv]_vars

SpecValidate == Init /\ [][NextBatch]_vars

SpecMakeSchema == Init /\ [][NextMake]_vars

\* ------------------------------------------------------------------ claims
\* The Result schema.validate gives for the k-th document of the call.
DocResult(k) ==
  SchemaValidate(b_schema, b_data[k].d, b_data[k].path, b_strict)

\* C1: validate raises the aggregate YamaleError iff _raise_error is true and
\* at least one document's Result is invalid, and returns normally in every
\* other case; the aggregate verdict is valid iff every Result is valid.
C1_RaisesIffInvalidAndNotSuppressed ==
  b_pc = "done" =>
    LET anyInvalid == \E k \in 1..Len(b_data) : ~ResultIsValid(DocResult(k))
    IN  /\ b_out.kind \in {"raised", "returned"}
        /\ (b_out.kind = "raised") <=> (b_raise /\ anyInvalid)
        /\ b_out.kind = "raised" => b_out.exc = "YamaleError"
        /\ is_valid <=> ~anyInvalid

\* C1's case: an invalid document followed by a valid one, raising.
C1_Witness ==
  /\ b_pc = "done"
  /\ b_out.kind = "raised"
  /\ Len(b_data) = 2
  /\ ~ResultIsValid(DocResult(1))
  /\ ResultIsValid(DocResult(2))

\* C2: validate runs schema.validate once on every document, in input order,
\* never stopping early: the Results returned, or carried by the error, are
\* one per document, the k-th that of the k-th document.
C2_OneResultPerDocumentInOrder ==
  /\ b_pc = "loop" => Len(results) = b_i - 1
  /\ b_pc = "done" =>
       /\ b_calls = b_data
       /\ Len(b_out.results) = Len(b_data)
       /\ \A k \in 1..Len(b_data) :
            /\ b_out.results[k] = DocResult(k)
            /\ b_out.results[k].data = b_data[k].path

\* C2's case: two documents, the first invalid and the second valid.
C2_Witness ==
  /\ b_pc = "done"
  /\ Len(b_data) = 2
  /\ Len(b_out.results) = 2
  /\ ~ResultIsValid(b_out.results[1])
  /\ ResultIsValid(b_out.results[2])

\* C3: an Include whose name is absent from the registry at the check reports
\* the checked value, whatever it is, invalid with a "not included" error.
\* (The registry only grows, so a name absent now was absent at the check.)
C3_Claim ==
  (rchk.done /\ rinst.tag = "include"
     /\ rinst.include_name \notin DOMAIN includes) =>
    /\ ~rchk.result
    /\ rinst.errors = <<NotIncluded(rinst.include_name)>>

\* C4: with the name in the registry, an Include check of a value of any
\* shape validates it against the sub-schema with the Include's strict, and
\* accepts it iff that validation gives no error; the failure message names
\* the include and joins the nested errors.
C4_Claim ==
  [][(rinst.tag = "include" /\ rcount' = rcount + 1
        /\ rinst.include_name \in DOMAIN includes) =>
       LET sub == SchemaValidate(includes[rinst.include_name], rchk'.value,
                                 rinst.include_name, rinst.strict)
       IN  /\ rchk'.result <=> ResultIsValid(sub)
           /\ rchk'.call = <<[schema |-> rinst.include_name,
                              data |-> rchk'.value,
                              data_name |-> rinst.include_name,
                              strict |-> rinst.strict]>>
           /\ ~rchk'.result =>
                rchk'.msg = "'" \o rchk'.value.val \o "' is not "
                              \o rinst.include_name \o " because "
                              \o JoinWith(sub.errors, "; ")]_vars

\* C5: Any accepts x iff some child accepts x, NotAny iff no child accepts x,
\* All iff every child accepts x.
C5_Claim ==
  (chk.done /\ inst.tag \in PlainTags /\ Len(inst.validators) >= 1) =>
    LET accepts(k) == IsValid(inst.validators[k], chk.value)
        children == 1..Len(inst.validators)
    IN  /\ inst.tag = "any" => (chk.result <=> \E k \in children : accepts(k))
        /\ inst.tag = "notany" =>
             (chk.result <=> ~\E k \in children : accepts(k))
        /\ inst.tag = "all" => (chk.result <=> \A k \in children : accepts(k))

\* C6: Subset without allow_empty rejects an empty collection with the "may
\* not be an empty set" failure, Subset with allow_empty accepts it, and
\* is_optional and can_be_none both equal allow_empty.
C6_Claim ==
  inst.tag = "subset" =>
    /\ is_optional(inst) = (ctor.kw = "True")
    /\ can_be_none(inst) = (ctor.kw = "True")
    /\ (chk.done /\ chk.value \in {PyEmptyList, PyEmptyMap}) =>
         IF ctor.kw = "True" THEN chk.result
         ELSE /\ ~chk.result
              /\ chk.msg = "'subset' may not be an empty set."

\* C7: each check with a reused instance is independent of the checks made
\* before it: an Include check depends only on the value and the registry at
\* the check, a file_line check only on which listed files exist when it
\* looks for them (it succeeds when every listed file was found).
C7_Claim ==
  [][rcount' = rcount + 1 =>
       /\ rinst.tag = "include" =>
            (rchk'.result <=>
               IncludeErrors(Include(rinst.include_name, rinst.strict),
                             rchk'.value, includes) = <<>>)
       /\ rinst.tag = "file_line" =>
            (rchk'.result <=> \A k \in 1..Len(f_reads) : f_reads[k])]_vars

\* Every document make_schema reads, in input order.
RECURSIVE AllDocs(_, _)
AllDocs(files, path) ==
  IF path = <<>> THEN <<>>
  ELSE files[Head(path)] \o AllDocs(files, Tail(path))

\* C8: make_schema over a non-empty list of paths that returns has built one
\* root schema, from the first document of the first path, has handed every
\* other document to add_include in input order, and returns that root; the
\* registry holds only names that add_include was given.
C8_OneRootRestIncludes ==
  /\ \A n \in DOMAIN includes :
       \E k \in 1..Len(m_adds) : n \in DOMAIN m_adds[k]
  /\ (m_pc = "done" /\ m_out.kind = "returned" /\ Len(m_path) >= 1) =>
       LET docs == AllDocs(m_files, m_path)
       IN  /\ m_roots = <<RootSchema(docs[1], m_path[1])>>
           /\ m_out.schema = m_roots[1]
           /\ m_adds = Tail(docs)
           /\ DOMAIN includes =
                UNION {DOMAIN m_adds[k] : k \in 1..Len(m_adds)}

\* C8's case: two paths of two documents each, so the second path's first
\* document is an include.
C8_Witness ==
  /\ m_pc = "done"
  /\ m_out.kind = "returned"
  /\ Len(m_path) = 2
  /\ Len(m_adds) = 3
  /\ m_adds[2] = m_files[m_path[2]][1]

\* C9: a Subset constructor call raises ValueError exactly when no argument
\* is a validator, and then builds no instance; otherwise the instance keeps
\* the validator arguments in argument order.
C9_SubsetNeedsValidator ==
  ctor.tag = "subset" =>
    LET none == \A k \in 1..Len(ctor.args) : ctor.args[k].kind # "validator"
    IN  /\ none <=> cerror # ""
        /\ none =>
             /\ inst = NoInst
             /\ cerror = "ValueError: 'subset' requires at least one validator!"
        /\ ~none =>
             /\ inst.tag = "subset"
             /\ inst.validators = SelectSeq(ctor.args, IsValidator)
             /\ Len(inst.validators) >= 1

\* C9's case: Subset given literals only.
C9_Witness ==
  /\ ctor.tag = "subset"
  /\ Len(ctor.args) = 2
  /\ cerror # ""
  /\ inst = NoInst

\* C10: every combinator's child list is its validator arguments in order,
\* followed by one Enum over its literal arguments when it has any.
C10_Claim ==
  inst # NoInst =>
    LET IsLiteral(a) == a.kind # "validator"
        lits == SelectSeq(ctor.args, IsLiteral)
        given == SelectSeq(ctor.args, IsValidator)
    IN  /\ inst.validators =
             given \o (IF lits # <<>> THEN <<Enum(lits)>> ELSE <<>>)
        /\ Len(inst.validators) = Len(given) + (IF lits # <<>> THEN 1 ELSE 0)

====
